---- MODULE Spec2Model ----
\* Model of champs_league.py: the team registry (teams_dict, team_id_counter),
\* the three fetch stages, the teams export and the __main__ script.
\* A CSV row keeps its key columns (the row's own id and its team and match
\* references); the header row is written whenever the file is opened, so a
\* file that exists with no rows is a header-only file.  Timestamps are left
\* out of the file names.
EXTENDS Integers, Sequences, FiniteSets, TLC

VARIABLES
    API_KEY,          \* TRUE iff os.getenv('API_KEY') gave a non-empty value
    teams_dict,       \* name -> [id, name, api_id]
    team_id_counter,
    pc,               \* position of the __main__ script
    files,            \* file kind -> [exists, rows]: the CSV files on disk
    standings_table,  \* the script's variables holding the fetchers' results
    matches_table,
    goals_table,
    scorers_table,
    teams_table,
    exit_status,      \* << >> while running, <<status>> once the process ended
    requests,         \* number of requests.get calls made so far
    \* history variables, read by the properties only
    outcome,          \* stage -> how the stage's try block ended: "pending", "error"
                      \* (raised before the loop), "raised" (raised inside the loop),
                      \* "nodata" (collection missing or empty) or "ok"
    resolved,         \* names passed to get_or_create_team_id by the stages, in call order
    goal_src,         \* for each row of goals_data: the goal and match fields it was built from
    last_call         \* << >> or <<[name, api, ret]>>: the last direct get_or_create_team_id call

vars == <<API_KEY, teams_dict, team_id_counter, pc, files, standings_table,
          matches_table, goals_table, scorers_table, teams_table, exit_status,
          requests, outcome, resolved, goal_src, last_call>>

-----------------------------------------------------------------------------
\* Bounds and input sets

MaxStandings == 2
MaxMatches == 2
MaxGoals == 1
MaxScorers == 1

\* Python's None as a team_api_id (the parameter's default)
NoneId == 0

Names == {"", "A", "B"}
\* team objects as the API returns them in standings, matches and scorers
TeamObjs == {[name |-> "", id |-> 10], [name |-> "A", id |-> 20], [name |-> "B", id |-> 30]}
\* api ids a direct caller may pass
ApiArgs == {NoneId, 20, 21}

Stages == {"standings", "matches", "scorers"}
FileKinds == {"standings", "matches", "goals", "scorers", "teams"}

NoFile == [exists |-> FALSE, rows |-> << >>]
File(rows) == [exists |-> TRUE, rows |-> rows]

\* a returned value: a bare object (tuple = FALSE, one value) or a tuple of values
Bare(v) == [tuple |-> FALSE, vals |-> <<v>>]
Pair(a, b) == [tuple |-> TRUE, vals |-> <<a, b>>]

SeqsUpTo(S, n) == UNION {[1..k -> S] : k \in 0..n}

-----------------------------------------------------------------------------
\* Team registry

GetOrCreate_Overwrite(dict, counter, team_name, team_api_id) ==
    IF team_name \notin DOMAIN dict
    THEN [dict |-> dict @@ (team_name :> [id |-> counter, name |-> team_name, api_id |-> team_api_id]),
          counter |-> counter + 1, id |-> counter]
    ELSE [dict |-> [dict EXCEPT ![team_name].api_id = team_api_id],
          counter |-> counter, id |-> dict[team_name].id]

GetOrCreate_Skip(dict, counter, team_name, team_api_id) ==
    IF team_name \notin DOMAIN dict
    THEN [dict |-> dict @@ (team_name :> [id |-> counter, name |-> team_name, api_id |-> team_api_id]),
          counter |-> counter + 2, id |-> counter]
    ELSE [dict |-> dict, counter |-> counter, id |-> dict[team_name].id]

\* get_or_create_team_id: the registry after the call and the id returned
GetOrCreate(dict, counter, team_name, team_api_id) ==
    IF team_name \notin DOMAIN dict
    THEN LET d == dict @@ (team_name :> [id |-> counter, name |-> team_name, api_id |-> team_api_id])
         IN [dict |-> d, counter |-> counter + 1, id |-> d[team_name].id]
    ELSE [dict |-> dict, counter |-> counter, id |-> dict[team_name].id]

\* sorted(teams_dict.items(), key=lambda x: x[1]['id'])
RECURSIVE SortedById(_)
SortedById(items) ==
    IF items = {} THEN << >>
    ELSE LET first == CHOOSE x \in items : \A y \in items : x.id <= y.id
         IN <<first>> \o SortedById(items \ {first})

Items(dict) == {dict[n] : n \in DOMAIN dict}

RECURSIVE SortedByName(_)
SortedByName(items) ==
    IF items = {} THEN << >>
    ELSE LET first == CHOOSE x \in items :
                 \A y \in items : x.name = y.name \/ x.name = "" \/ (x.name = "A" /\ y.name = "B")
         IN <<first>> \o SortedByName(items \ {first})

TeamsRows_ByName(dict) ==
    LET s == SortedByName(Items(dict))
    IN [i \in 1..Len(s) |-> [team_id |-> s[i].id, team_name |-> s[i].name, api_id |-> s[i].api_id]]

TeamsRows_DropFirst(dict) ==
    LET s == SortedById(Items(dict))
        t == IF s = << >> THEN s ELSE Tail(s)
    IN [i \in 1..Len(t) |-> [team_id |-> t[i].id, team_name |-> t[i].name, api_id |-> t[i].api_id]]

\* save_teams_table: the data rows written to teams_<ts>.csv
TeamsRows(dict) ==
    LET s == SortedById(Items(dict))
    IN [i \in 1..Len(s) |-> [team_id |-> s[i].id, team_name |-> s[i].name, api_id |-> s[i].api_id]]

-----------------------------------------------------------------------------
\* API responses.  A response either makes the code raise before any entry is
\* read (kind "error": requests.get, raise_for_status, response.json or the
\* lookup of the table fail), or parses without the expected collection
\* (kind "nokey"), or carries the collection (kind "data").
\* An entry's field `broken` names the part of it whose lookup raises.  The
\* entries after a raising entry are never read, so only a response's last
\* entry is broken.

AnyTeam == CHOOSE t \in TeamObjs : TRUE

TableEntriesOk == [broken : {"none"}, team : TeamObjs]
TableEntriesBad == [broken : {"stats"}, team : TeamObjs] \cup {[broken |-> "team", team |-> AnyTeam]}

Lists(ok, bad, n) ==
    SeqsUpTo(ok, n) \cup {Append(p, b) : p \in SeqsUpTo(ok, n - 1), b \in bad}

\* 'standings' in data: the list of groups; only data['standings'][0]['table'] is read
StandingsResponses ==
    {[kind |-> "error", standings |-> << >>], [kind |-> "nokey", standings |-> << >>],
     [kind |-> "data", standings |-> << >>]}
    \cup {[kind |-> "data", standings |-> <<t>>] : t \in Lists(TableEntriesOk, TableEntriesBad, MaxStandings)}

ScorerEntriesOk == [broken : {"none"}, team : TeamObjs]
ScorerEntriesBad == [broken : {"player"}, team : TeamObjs] \cup {[broken |-> "team", team |-> AnyTeam]}

ScorersResponses ==
    {[kind |-> "error", scorers |-> << >>], [kind |-> "nokey", scorers |-> << >>]}
    \cup {[kind |-> "data", scorers |-> l] : l \in Lists(ScorerEntriesOk, ScorerEntriesBad, MaxScorers)}

\* a goal: team is << >> when the goal has no 'team' key, else <<name>>
GoalsOk == [broken : {FALSE}, team : {<< >>} \cup {<<n>> : n \in Names}]
GoalsBad == {[broken |-> TRUE, team |-> << >>]}
\* a match's goals: has = FALSE when the match has no 'goals' key
GoalListsOk == {[has |-> FALSE, list |-> << >>]} \cup {[has |-> TRUE, list |-> l] : l \in SeqsUpTo(GoalsOk, MaxGoals)}
GoalListsBad == {[has |-> TRUE, list |-> Append(p, b)] : p \in SeqsUpTo(GoalsOk, MaxGoals - 1), b \in GoalsBad}
NoGoals == [has |-> FALSE, list |-> << >>]

\* the matches that can stand at position i of the list; match['id'] is unique per match
MatchesOk(i) == [broken : {"none"}, id : {i}, homeTeam : TeamObjs, awayTeam : TeamObjs, goals : GoalListsOk]
MatchesBad(i) ==
    {[broken |-> "homeTeam", id |-> i, homeTeam |-> AnyTeam, awayTeam |-> AnyTeam, goals |-> NoGoals]}
    \cup [broken : {"awayTeam"}, id : {i}, homeTeam : TeamObjs, awayTeam : {AnyTeam}, goals : {NoGoals}]
    \cup [broken : {"fields"}, id : {i}, homeTeam : TeamObjs, awayTeam : TeamObjs, goals : {NoGoals}]
    \cup [broken : {"none"}, id : {i}, homeTeam : TeamObjs, awayTeam : TeamObjs, goals : GoalListsBad]

RECURSIVE MatchListsOk(_)
MatchListsOk(n) ==
    IF n = 0 THEN {<< >>}
    ELSE LET shorter == MatchListsOk(n - 1)
         IN shorter \cup {Append(p, m) : p \in {q \in shorter : Len(q) = n - 1}, m \in MatchesOk(n)}

MatchLists ==
    MatchListsOk(MaxMatches)
    \cup UNION {{Append(p, m) : m \in MatchesBad(Len(p) + 1)} : p \in MatchListsOk(MaxMatches - 1)}

MatchesResponses ==
    {[kind |-> "error", matches |-> << >>], [kind |-> "nokey", matches |-> << >>]}
    \cup {[kind |-> "data", matches |-> l] : l \in MatchLists}

-----------------------------------------------------------------------------
\* Standings stage

\* one iteration of the loop over the table: resolve the team, then write the row
StandingsStep(acc, idx, team) ==
    IF team.broken = "team" THEN [acc EXCEPT !.raised = TRUE]
    ELSE LET r == GetOrCreate(acc.dict, acc.counter, team.team.name, team.team.id)
             a == [acc EXCEPT !.dict = r.dict, !.counter = r.counter,
                              !.calls = Append(@, team.team.name)]
         IN IF team.broken = "stats" THEN [a EXCEPT !.raised = TRUE]
            ELSE [a EXCEPT !.rows = Append(@, [standing_id |-> idx, team_id |-> r.id])]

RECURSIVE StandingsLoop(_, _, _)
StandingsLoop(acc, idx, standings) ==
    IF standings = << >> \/ acc.raised THEN acc
    ELSE StandingsLoop(StandingsStep(acc, idx, Head(standings)), idx + 1, Tail(standings))

\* fetch_champions_league_standings: registry, file and return value after the call
FetchStandings(dict, counter, data) ==
    LET same == [dict |-> dict, counter |-> counter, calls |-> << >>]
    IN  IF data.kind = "error"
        THEN same @@ [ret |-> Bare("None"), file |-> NoFile, outcome |-> "error"]
        ELSE IF data.kind = "data" /\ Len(data.standings) > 0
        THEN LET acc == StandingsLoop([dict |-> dict, counter |-> counter, rows |-> << >>,
                                       calls |-> << >>, raised |-> FALSE],
                                      1, data.standings[1])
             IN [dict |-> acc.dict, counter |-> acc.counter, calls |-> acc.calls,
                 file |-> File(acc.rows),
                 ret |-> IF acc.raised THEN Bare("None") ELSE Bare("standings.csv"),
                 outcome |-> IF acc.raised THEN "raised" ELSE "ok"]
        ELSE same @@ [ret |-> Bare("None"), file |-> NoFile, outcome |-> "nodata"]

-----------------------------------------------------------------------------
\* Scorers stage

ScorersStep(acc, idx, scorer) ==
    IF scorer.broken = "team" THEN [acc EXCEPT !.raised = TRUE]
    ELSE LET r == GetOrCreate(acc.dict, acc.counter, scorer.team.name, scorer.team.id)
             a == [acc EXCEPT !.dict = r.dict, !.counter = r.counter,
                              !.calls = Append(@, scorer.team.name)]
         IN IF scorer.broken = "player" THEN [a EXCEPT !.raised = TRUE]
            ELSE [a EXCEPT !.rows = Append(@, [scorer_id |-> idx, team_id |-> r.id])]

RECURSIVE ScorersLoop(_, _, _)
ScorersLoop(acc, idx, scorers) ==
    IF scorers = << >> \/ acc.raised THEN acc
    ELSE ScorersLoop(ScorersStep(acc, idx, Head(scorers)), idx + 1, Tail(scorers))

\* fetch_top_scorers
FetchScorers(dict, counter, data) ==
    LET same == [dict |-> dict, counter |-> counter, calls |-> << >>]
    IN  IF data.kind = "error"
        THEN same @@ [ret |-> Bare("None"), file |-> NoFile, outcome |-> "error"]
        ELSE IF data.kind = "data"
        THEN LET acc == ScorersLoop([dict |-> dict, counter |-> counter, rows |-> << >>,
                                     calls |-> << >>, raised |-> FALSE],
                                    1, data.scorers)
             IN [dict |-> acc.dict, counter |-> acc.counter, calls |-> acc.calls,
                 file |-> File(acc.rows),
                 ret |-> IF acc.raised THEN Bare("None") ELSE Bare("scorers.csv"),
                 outcome |-> IF acc.raised THEN "raised" ELSE "ok"]
        \* the function ends without a return statement: Python returns None
        ELSE same @@ [ret |-> Bare("None"), file |-> NoFile, outcome |-> "nodata"]

-----------------------------------------------------------------------------
\* Matches and goals stage

\* goal.get('team', {}).get('name', '')
ScorerTeam(goal) == IF goal.team = << >> THEN "" ELSE goal.team[1]

ScorerTeamId_ByAway(scorer_team, match, home_team_id, away_team_id) ==
    IF scorer_team = match.awayTeam.name THEN away_team_id ELSE home_team_id

\* home_team_id if scorer_team == match['homeTeam']['name'] else away_team_id
ScorerTeamId(scorer_team, match, home_team_id, away_team_id) ==
    IF scorer_team = match.homeTeam.name THEN home_team_id ELSE away_team_id

NextGoalId_Stuck(goal_id) == goal_id

\* goal_id += 1
NextGoalId(goal_id) == goal_id + 1

\* one iteration of the loop over match['goals']
GoalStep(acc, match, home_team_id, away_team_id, goal) ==
    IF goal.broken THEN [acc EXCEPT !.raised = TRUE]
    ELSE LET scorer_team == ScorerTeam(goal)
             scorer_team_id == ScorerTeamId(scorer_team, match, home_team_id, away_team_id)
         IN [acc EXCEPT
                !.goals_data = Append(@, [goal_id |-> acc.goal_id, match_id |-> match.id,
                                          team_id |-> scorer_team_id]),
                !.src = Append(@, [team |-> goal.team, home |-> match.homeTeam.name,
                                   home_team_id |-> home_team_id, away_team_id |-> away_team_id]),
                !.goal_id = NextGoalId(@)]

RECURSIVE GoalsLoop(_, _, _, _, _)
GoalsLoop(acc, match, home_team_id, away_team_id, goals) ==
    IF goals = << >> \/ acc.raised THEN acc
    ELSE GoalsLoop(GoalStep(acc, match, home_team_id, away_team_id, Head(goals)),
                   match, home_team_id, away_team_id, Tail(goals))

\* one iteration of the loop over matches
MatchStep(acc, match) ==
    IF match.broken = "homeTeam" THEN [acc EXCEPT !.raised = TRUE]
    ELSE LET h == GetOrCreate(acc.dict, acc.counter, match.homeTeam.name, match.homeTeam.id)
             a1 == [acc EXCEPT !.dict = h.dict, !.counter = h.counter,
                               !.calls = Append(@, match.homeTeam.name)]
         IN IF match.broken = "awayTeam" THEN [a1 EXCEPT !.raised = TRUE]
            ELSE LET w == GetOrCreate(a1.dict, a1.counter, match.awayTeam.name, match.awayTeam.id)
                     a2 == [a1 EXCEPT !.dict = w.dict, !.counter = w.counter,
                                      !.calls = Append(@, match.awayTeam.name)]
                 IN IF match.broken = "fields" THEN [a2 EXCEPT !.raised = TRUE]
                    ELSE LET a3 == [a2 EXCEPT !.matches_data =
                                       Append(@, [match_id |-> match.id, home_team_id |-> h.id,
                                                  away_team_id |-> w.id])]
                         IN IF match.goals.has /\ match.goals.list # << >>
                            THEN GoalsLoop(a3, match, h.id, w.id, match.goals.list)
                            ELSE a3

RECURSIVE MatchesLoop(_, _)
MatchesLoop(acc, matches) ==
    IF matches = << >> \/ acc.raised THEN acc
    ELSE MatchesLoop(MatchStep(acc, Head(matches)), Tail(matches))

MatchesAcc(dict, counter) ==
    [dict |-> dict, counter |-> counter, matches_data |-> << >>, goals_data |-> << >>,
     goal_id |-> 1, calls |-> << >>, src |-> << >>, raised |-> FALSE]

FetchMatches_Rollback(dict, counter, data) ==
    LET same == [dict |-> dict, counter |-> counter, calls |-> << >>, src |-> << >>,
                 matches_file |-> NoFile, goals_file |-> NoFile]
    IN  IF data.kind = "error"
        THEN same @@ [ret |-> Pair("None", "None"), outcome |-> "error"]
        ELSE IF data.kind = "data"
        THEN LET acc == MatchesLoop(MatchesAcc(dict, counter), data.matches)
             IN IF acc.raised
                THEN [same EXCEPT !.calls = acc.calls]
                     @@ [ret |-> Pair("None", "None"), outcome |-> "raised"]
                ELSE [dict |-> acc.dict, counter |-> acc.counter, calls |-> acc.calls,
                      src |-> acc.src, matches_file |-> File(acc.matches_data),
                      goals_file |-> File(acc.goals_data),
                      ret |-> Pair("matches.csv", "goals.csv"), outcome |-> "ok"]
        ELSE same @@ [ret |-> Bare("None"), outcome |-> "nodata"]

\* fetch_champions_league_matches
FetchMatches(dict, counter, data) ==
    LET same == [dict |-> dict, counter |-> counter, calls |-> << >>, src |-> << >>,
                 matches_file |-> NoFile, goals_file |-> NoFile]
    IN  IF data.kind = "error"
        THEN same @@ [ret |-> Pair("None", "None"), outcome |-> "error"]
        ELSE IF data.kind = "data"
        THEN LET acc == MatchesLoop(MatchesAcc(dict, counter), data.matches)
             IN IF acc.raised
                THEN [dict |-> acc.dict, counter |-> acc.counter, calls |-> acc.calls,
                      src |-> << >>, matches_file |-> NoFile, goals_file |-> NoFile,
                      ret |-> Pair("None", "None"), outcome |-> "raised"]
                ELSE [dict |-> acc.dict, counter |-> acc.counter, calls |-> acc.calls,
                      src |-> acc.src, matches_file |-> File(acc.matches_data),
                      goals_file |-> File(acc.goals_data),
                      ret |-> Pair("matches.csv", "goals.csv"), outcome |-> "ok"]
        \* no else branch and no return after the if: Python returns a bare None
        ELSE same @@ [ret |-> Bare("None"), outcome |-> "nodata"]

-----------------------------------------------------------------------------
\* The __main__ script

\* a, b = value: succeeds only on an iterable of exactly two items
CanUnpack2(ret) == ret.tuple /\ Len(ret.vals) = 2

Init ==
    /\ API_KEY \in BOOLEAN
    /\ teams_dict = << >>
    /\ team_id_counter = 1
    /\ pc = "start"
    /\ files = [k \in FileKinds |-> NoFile]
    /\ standings_table = "unbound"
    /\ matches_table = "unbound"
    /\ goals_table = "unbound"
    /\ scorers_table = "unbound"
    /\ teams_table = "unbound"
    /\ exit_status = << >>
    /\ requests = 0
    /\ outcome = [s \in Stages |-> "pending"]
    /\ resolved = << >>
    /\ goal_src = << >>
    /\ last_call = << >>

\* if not API_KEY: exit(1)
CheckKey ==
    /\ pc = "start"
    /\ IF API_KEY
       THEN pc' = "standings" /\ exit_status' = exit_status
       ELSE pc' = "exited" /\ exit_status' = <<1>>
    /\ UNCHANGED <<API_KEY, teams_dict, team_id_counter, files, standings_table,
                   matches_table, goals_table, scorers_table, teams_table,
                   requests, outcome, resolved, goal_src, last_call>>

\* standings_table = fetch_champions_league_standings()
RunStandings ==
    /\ pc = "standings"
    /\ \E data \in StandingsResponses :
          LET out == FetchStandings(teams_dict, team_id_counter, data)
          IN /\ teams_dict' = out.dict
             /\ team_id_counter' = out.counter
             /\ files' = [files EXCEPT !["standings"] = out.file]
             /\ standings_table' = out.ret.vals[1]
             /\ outcome' = [outcome EXCEPT !["standings"] = out.outcome]
             /\ resolved' = resolved \o out.calls
    /\ requests' = requests + 1
    /\ pc' = "matches"
    /\ UNCHANGED <<API_KEY, matches_table, goals_table, scorers_table, teams_table,
                   exit_status, goal_src, last_call>>

\* matches_table, goals_table = fetch_champions_league_matches()
RunMatches ==
    /\ pc = "matches"
    /\ \E data \in MatchesResponses :
          LET out == FetchMatches(teams_dict, team_id_counter, data)
          IN /\ teams_dict' = out.dict
             /\ team_id_counter' = out.counter
             /\ files' = [files EXCEPT !["matches"] = out.matches_file,
                                       !["goals"] = out.goals_file]
             /\ outcome' = [outcome EXCEPT !["matches"] = out.outcome]
             /\ resolved' = resolved \o out.calls
             /\ goal_src' = out.src
             /\ IF CanUnpack2(out.ret)
                THEN /\ matches_table' = out.ret.vals[1]
                     /\ goals_table' = out.ret.vals[2]
                     /\ pc' = "scorers"
                     /\ exit_status' = exit_status
                \* TypeError: cannot unpack non-iterable NoneType object; nothing
                \* catches it, the interpreter prints the traceback and exits 1
                ELSE /\ UNCHANGED <<matches_table, goals_table>>
                     /\ pc' = "exited"
                     /\ exit_status' = <<1>>
    /\ requests' = requests + 1
    /\ UNCHANGED <<API_KEY, standings_table, scorers_table, teams_table, last_call>>

\* scorers_table = fetch_top_scorers()
RunScorers ==
    /\ pc = "scorers"
    /\ \E data \in ScorersResponses :
          LET out == FetchScorers(teams_dict, team_id_counter, data)
          IN /\ teams_dict' = out.dict
             /\ team_id_counter' = out.counter
             /\ files' = [files EXCEPT !["scorers"] = out.file]
             /\ scorers_table' = out.ret.vals[1]
             /\ outcome' = [outcome EXCEPT !["scorers"] = out.outcome]
             /\ resolved' = resolved \o out.calls
    /\ requests' = requests + 1
    /\ pc' = "export"
    /\ UNCHANGED <<API_KEY, standings_table, matches_table, goals_table, teams_table,
                   exit_status, goal_src, last_call>>

\* teams_table = save_teams_table(), the summary, and the end of the script
RunExport ==
    /\ pc = "export"
    /\ files' = [files EXCEPT !["teams"] = File(TeamsRows(teams_dict))]
    /\ teams_table' = "teams.csv"
    /\ pc' = "exited"
    /\ exit_status' = <<0>>
    /\ UNCHANGED <<API_KEY, teams_dict, team_id_counter, standings_table, matches_table,
                   goals_table, scorers_table, requests, outcome, resolved, goal_src,
                   last_call>>

Next == CheckKey \/ RunStandings \/ RunMatches \/ RunScorers \/ RunExport

Spec == Init /\ [][Next]_vars

\* A caller of the module's get_or_create_team_id, outside the script
CallGetOrCreate ==
    /\ pc = "start"
    /\ \E team_name \in Names, team_api_id \in ApiArgs :
          LET r == GetOrCreate(teams_dict, team_id_counter, team_name, team_api_id)
          IN /\ teams_dict' = r.dict
             /\ team_id_counter' = r.counter
             /\ last_call' = <<[name |-> team_name, api |-> team_api_id, ret |-> r.id]>>
    /\ UNCHANGED <<API_KEY, pc, files, standings_table, matches_table, goals_table,
                   scorers_table, teams_table, exit_status, requests, outcome,
                   resolved, goal_src>>

NextRegistry == CallGetOrCreate

SpecRegistry == Init /\ [][NextRegistry]_vars

-----------------------------------------------------------------------------
\* Properties

Range(s) == {s[i] : i \in DOMAIN s}

RegistryIds == {teams_dict[n].id : n \in DOMAIN teams_dict}

RegistrySize == Cardinality(DOMAIN teams_dict)

\* the names of a call sequence in the order of their first occurrence
RECURSIVE FirstSightings(_)
FirstSightings(calls) ==
    IF calls = << >> THEN << >>
    ELSE LET n == Len(calls)
             before == FirstSightings(SubSeq(calls, 1, n - 1))
         IN IF calls[n] \in Range(before) THEN before ELSE Append(before, calls[n])

\* every team_id written in a row of a file on disk
RowTeamIds ==
    {r.team_id : r \in Range(files["standings"].rows)}
    \cup {r.home_team_id : r \in Range(files["matches"].rows)}
    \cup {r.away_team_id : r \in Range(files["matches"].rows)}
    \cup {r.team_id : r \in Range(files["goals"].rows)}
    \cup {r.team_id : r \in Range(files["scorers"].rows)}

StageFailed(s) == outcome[s] \in {"error", "raised"}

\* C1: the ids handed out to first-seen names are 1, 2, 3, ... without gap or
\* reuse, a registered name always resolves to the id of its first sighting, and
\* team_id_counter is the number of registered teams plus 1.
C1_SequentialIds ==
    /\ [](/\ team_id_counter = RegistrySize + 1
          /\ RegistryIds = 1..RegistrySize)
    /\ [][/\ \A n \in DOMAIN teams_dict :
                n \in DOMAIN teams_dict' /\ teams_dict'[n].id = teams_dict[n].id
          /\ last_call' # << >> =>
                LET c == last_call'[1]
                IN IF c.name \in DOMAIN teams_dict
                   THEN c.ret = teams_dict[c.name].id
                   ELSE /\ c.ret = RegistrySize + 1
                        /\ teams_dict'[c.name].id = c.ret]_vars

\* C1 witness: three names were registered and the last call resolved a known name
C1_Witness ==
    /\ RegistrySize = 3
    /\ last_call # << >>
    /\ last_call[1].ret < 3

\* C2 (as claimed): a matches response without 'matches' writes no file and the
\* caller's unpacking binds both results to None.
C2_AbsentPair ==
    outcome["matches"] = "nodata" =>
        /\ ~files["matches"].exists
        /\ ~files["goals"].exists
        /\ matches_table = "None"
        /\ goals_table = "None"

\* C3 (as claimed): with the credential every run goes through all four stages
\* and exits 0; exit status 1 only without the credential, before any request.
C3_ExitStatus ==
    pc = "exited" =>
        IF API_KEY
        THEN /\ exit_status = <<0>>
             /\ \A s \in Stages : outcome[s] # "pending"
             /\ files["teams"].exists
        ELSE /\ exit_status = <<1>>
             /\ requests = 0

\* C4 (as claimed): a stage that failed returned None and left none of its
\* files on disk.
C4_NoFileAfterFailure ==
    /\ StageFailed("standings") => standings_table = "None" /\ ~files["standings"].exists
    /\ StageFailed("matches") =>
          /\ matches_table = "None" /\ goals_table = "None"
          /\ ~files["matches"].exists /\ ~files["goals"].exists
    /\ StageFailed("scorers") => scorers_table = "None" /\ ~files["scorers"].exists

\* C5 (as claimed): a failed matches stage leaves both outputs absent and the
\* registry exactly as it was before the stage.
C5_RegistryRestored ==
    [][(pc = "matches" /\ outcome'["matches"] \in {"error", "raised"}) =>
          /\ ~files'["matches"].exists /\ ~files'["goals"].exists
          /\ teams_dict' = teams_dict
          /\ team_id_counter' = team_id_counter]_vars

\* C5 (amended): a failed matches stage leaves both outputs absent; every team
\* registered before the stage is unchanged, the teams resolved by the stage
\* before the failure stay registered, and a transport error leaves the registry
\* as it was.
C5_PartialWorkKept ==
    [][(pc = "matches" /\ outcome'["matches"] \in {"error", "raised"}) =>
          /\ ~files'["matches"].exists /\ ~files'["goals"].exists
          /\ matches_table' = "None" /\ goals_table' = "None"
          /\ \A n \in DOMAIN teams_dict :
                n \in DOMAIN teams_dict' /\ teams_dict'[n] = teams_dict[n]
          /\ DOMAIN teams_dict' =
                DOMAIN teams_dict \cup {resolved'[i] : i \in (Len(resolved) + 1)..Len(resolved')}
          /\ team_id_counter' = Cardinality(DOMAIN teams_dict') + 1
          /\ outcome'["matches"] = "error" =>
                teams_dict' = teams_dict /\ team_id_counter' = team_id_counter]_vars

\* C5 witness: the matches stage failed at a later match and the teams of its
\* earlier matches are the only registered teams
C5_Witness ==
    /\ outcome["standings"] = "error"
    /\ outcome["matches"] = "raised"
    /\ Len(resolved) >= 3
    /\ RegistrySize >= 2

\* C6: every team_id of a row on disk is a registered team's id, the teams
\* export runs only after the three fetchers, and the exported table holds
\* every team_id that any row refers to.
C6_NoDanglingTeam ==
    /\ RowTeamIds \subseteq RegistryIds
    /\ files["teams"].exists =>
          /\ \A s \in Stages : outcome[s] # "pending"
          /\ RowTeamIds \subseteq {r.team_id : r \in Range(files["teams"].rows)}
          /\ \A r \in Range(files["teams"].rows) :
                r.team_name \in DOMAIN teams_dict /\ teams_dict[r.team_name].id = r.team_id

\* C6 witness: the export follows three stages that each wrote rows, naming
\* three teams in all
C6_Witness ==
    /\ files["teams"].exists
    /\ files["standings"].rows # << >>
    /\ files["goals"].rows # << >>
    /\ files["scorers"].rows # << >>
    /\ Cardinality(RowTeamIds) = 3

\* C7: the rows of the teams export are in ascending team_id order, which is
\* the order of the names' first sightings over all stages.
C7_ExportOrder ==
    files["teams"].exists =>
        LET rows == files["teams"].rows
        IN /\ \A i, j \in 1..Len(rows) : i < j => rows[i].team_id < rows[j].team_id
           /\ [i \in 1..Len(rows) |-> rows[i].team_name] = FirstSightings(resolved)

\* C7 witness: three teams first seen in non-alphabetical order, one of them
\* only in the scorers stage
C7_Witness ==
    /\ files["teams"].exists
    /\ Len(files["teams"].rows) = 3
    /\ files["teams"].rows[1].team_name = "B"
    /\ files["teams"].rows[2].team_name = ""
    /\ Len(files["scorers"].rows) = 1
    /\ files["scorers"].rows[1].team_id = 3

\* C8: the goal ids of one run are 1..G in output order, not reset between
\* matches.
C8_GoalIds ==
    files["goals"].exists =>
        LET rows == files["goals"].rows
        IN /\ Len(rows) = Len(goal_src)
           /\ \A i \in 1..Len(rows) : rows[i].goal_id = i

\* C8 witness: goals of two different matches
C8_Witness ==
    /\ files["goals"].exists
    /\ Len(files["goals"].rows) = 2
    /\ files["goals"].rows[1].match_id # files["goals"].rows[2].match_id

\* C9 (as claimed): a goal goes to the home team when the goal has a team name
\* equal to the home-team name, and to the away team in every other case, a
\* missing team name included.
C9_MissingGoesAway ==
    files["goals"].exists =>
        \A i \in 1..Len(files["goals"].rows) :
            LET g == files["goals"].rows[i]
                s == goal_src[i]
            IN g.team_id = IF s.team # << >> /\ s.team[1] = s.home
                           THEN s.home_team_id ELSE s.away_team_id

\* C9 (amended): a missing goal team name is read as the empty string; a goal
\* goes to the home team when that name equals the home-team name and to the
\* away team in every other case, and only the names the stages resolve are
\* registered.
C9_Attribution ==
    /\ DOMAIN teams_dict = Range(resolved)
    /\ files["goals"].exists =>
          \A i \in 1..Len(files["goals"].rows) :
              LET g == files["goals"].rows[i]
                  s == goal_src[i]
                  name == IF s.team = << >> THEN "" ELSE s.team[1]
              IN /\ g.team_id = IF name = s.home THEN s.home_team_id ELSE s.away_team_id
                 /\ teams_dict[s.home].id = s.home_team_id
                 /\ \E m \in Range(files["matches"].rows) :
                       /\ m.match_id = g.match_id
                       /\ m.home_team_id = s.home_team_id
                       /\ m.away_team_id = s.away_team_id

\* C9 witness: a goal whose team name is neither the home nor the away team's
\* went to the away team
C9_Witness ==
    /\ files["goals"].exists
    /\ \E i \in 1..Len(files["goals"].rows) :
          LET g == files["goals"].rows[i]
              s == goal_src[i]
          IN /\ s.team # << >>
             /\ s.team[1] # s.home
             /\ s.team[1] \notin DOMAIN teams_dict
             /\ s.home_team_id # s.away_team_id
             /\ g.team_id = s.away_team_id

\* C10: resolving a registered name changes neither teams_dict (the stored
\* api_id included) nor team_id_counter.
C10_RepeatIsNoOp ==
    [][(last_call' # << >> /\ last_call'[1].name \in DOMAIN teams_dict) =>
          /\ teams_dict' = teams_dict
          /\ team_id_counter' = team_id_counter]_vars

\* C10 witness: the last call named a registered team with another api_id than
\* the stored one
C10_Witness ==
    /\ last_call # << >>
    /\ last_call[1].name \in DOMAIN teams_dict
    /\ teams_dict[last_call[1].name].api_id # last_call[1].api
    /\ RegistrySize >= 2

====
